---- MODULE Spec2Model ----
(***************************************************************************)
(* Gotris: the board (model/board.go) and the tile (model/tile.go) as a    *)
(* state machine.                                                          *)
(*                                                                         *)
(* A row is a packed unsigned integer in the source.  Here a row is the    *)
(* set of the positions (0 = least significant) of its set bits, so that   *)
(* & is \cap, | is \cup, "== 0" is "= {}" and a shift moves every          *)
(* position and drops the ones that leave the 32-bit word.                 *)
(*                                                                         *)
(* Row layout (Tile, board.go:455-559): bit 31 and bit 0 are padding, and  *)
(* column c (0 = leftmost, BoardWidth columns) holds a blockBitSize-bit    *)
(* colour code in bits 28-3c .. 30-3c.  The Board methods of board.go      *)
(* (lines 113-325) combine grid rows and tile rows with & and |=, so grid  *)
(* rows have the tile's row layout; the Board's literals that are written  *)
(* for one bit per column (255: every column set; 0b11000000 and           *)
(* 0b00000011: the two outermost columns of a side) denote the same        *)
(* columns in this layout.                                                 *)
(***************************************************************************)
EXTENDS Integers, Sequences, FiniteSets, TLC

(***************************** Constants **********************************)

\* Columns of a row: the tile code lays a row out as 10 blocks
\* (board.go:528, the colour mask) between the two padding bits.
BoardWidth == 10
\* Visible rows.  board.go:81 sets 20; the model checks a shorter board
\* (every index computation is relative to BoardHeight).
BoardHeight == 6
\* Pieces that become active in one behaviour.
MaxTiles == 1

TileSize == 4
blockBitSize == 3
rShiftBlockBitDiff == 28
blockMask == 7
WordSize == 32

Transparent == 0
Blue == 1
Cyan == 2
Grey == 3
Yellow == 4
Green == 5
Violet == 6
Red == 7

Left == TRUE
Right == FALSE

(***************************** Words **************************************)

Word == 0 .. (WordSize - 1)

\* The set bits of the number n, which is below 2^width.
Bits(n, width) == {i \in 0 .. (width - 1) : (n \div (2 ^ i)) % 2 = 1}

\* x << n and x >> n on a 32-bit word.
Shl(x, n) == {b + n : b \in {c \in x : c + n < WordSize}}
Shr(x, n) == {b - n : b \in {c \in x : c >= n}}

\* The colour code held in column col of a row.
CellColor(r, col) ==
    LET base == rShiftBlockBitDiff - (blockBitSize * col)
    IN  (IF base \in r THEN 1 ELSE 0) + (IF (base + 1) \in r THEN 2 ELSE 0)
        + (IF (base + 2) \in r THEN 4 ELSE 0)

\* The bits of column col: (blockMask << rShiftBlockBitDiff) >> (blockBitSize * col).
ColumnBits(col) ==
    Shr(Shl(Bits(blockMask, blockBitSize), rShiftBlockBitDiff), blockBitSize * col)

\* A row with every column fully set (255 in the one-bit-per-column form).
FullRow == UNION {ColumnBits(col) : col \in 0 .. (BoardWidth - 1)}

(***************************** Tile ***************************************)

NilTile == [shape |-> <<{}, {}, {}, {}>>, color |-> Transparent]

\* buildTile: the 8-bit shape projected into the coloured 32-bit rows.
buildTileRow(simpleRow, color) ==
    UNION {Shr(Shl(Bits(color, blockBitSize), rShiftBlockBitDiff - blockBitSize),
               col * blockBitSize)
           : col \in {c \in 0 .. 7 : (7 - c) \in Bits(simpleRow, 8)}}

buildTile(shape, color) ==
    [shape |-> [row \in 1 .. TileSize |-> buildTileRow(shape[row], color)],
     color |-> color]

\* The 7 tiles PickTile chooses from.
tiles ==
    <<buildTile(<<0, 8, 8, 24>>, Violet),
      buildTile(<<0, 16, 16, 24>>, Yellow),
      buildTile(<<0, 24, 24, 0>>, Cyan),
      buildTile(<<8, 8, 8, 8>>, Red),
      buildTile(<<0, 16, 56, 0>>, Grey),
      buildTile(<<0, 24, 48, 0>>, Blue),
      buildTile(<<0, 48, 24, 0>>, Green)>>

\* PickTile: the tile at the index the random source yields.
\* A pick that does not look at the value drawn.
PickTileFirst(draw) == tiles[1]

PickTile(draw) == tiles[draw + 1]

\* GetBottomGap: the count of zero rows at the end of the shape.
RECURSIVE GapFrom(_, _)
GapFrom(shape, row) ==
    IF row < 0 THEN 0
    ELSE IF shape[row + 1] = {} THEN 1 + GapFrom(shape, row - 1)
    ELSE 0

\* A count of all the empty rows of the shape, not only the trailing ones.
CountEmptyRows(t) == Cardinality({row \in 1 .. TileSize : t.shape[row] = {}})

GetBottomGap(t) == GapFrom(t.shape, TileSize - 1)

\* Tile.MoveX: one column left or right, unless a row touches that side.
leftBoundMask == {28, 29, 30, 31}
rightBoundMask == {0, 1, 2, 3}

\* A MoveX that stops each row on its own: a row that touches the side stays
\* and the other rows move.
TileMoveXPerRow(t, direction) ==
    [t EXCEPT !.shape =
        [row \in 1 .. TileSize |->
            IF direction = Left
            THEN IF t.shape[row] \cap {28, 29, 30, 31} # {} THEN t.shape[row]
                 ELSE Shl(t.shape[row], blockBitSize)
            ELSE IF t.shape[row] \cap {0, 1, 2, 3} # {} THEN t.shape[row]
                 ELSE Shr(t.shape[row], blockBitSize)]]

\* A MoveX that moves right by two bits less than a block.
TileMoveXShort(t, direction) ==
    IF direction = Left /\ \E row \in 1 .. TileSize : t.shape[row] \cap {28, 29, 30, 31} # {}
    THEN t
    ELSE IF direction = Right /\ \E row \in 1 .. TileSize : t.shape[row] \cap {0, 1, 2, 3} # {}
    THEN t
    ELSE [t EXCEPT !.shape =
             [row \in 1 .. TileSize |->
                 IF direction = Left THEN Shl(t.shape[row], blockBitSize)
                 ELSE Shr(t.shape[row], 1)]]

TileMoveX(t, direction) ==
    IF direction = Left /\ \E row \in 1 .. TileSize : t.shape[row] \cap leftBoundMask # {}
    THEN t
    ELSE IF direction = Right
            /\ \E row \in 1 .. TileSize : t.shape[row] \cap rightBoundMask # {}
    THEN t
    ELSE [t EXCEPT !.shape =
             [row \in 1 .. TileSize |->
                 IF direction = Left THEN Shl(t.shape[row], blockBitSize)
                 ELSE Shr(t.shape[row], blockBitSize)]]

\* A colour mask with every bit of every block set.
colorMaskFull(color) == FullRow

\* Tile.Rotate.  The result is [ok, tile]: ok is FALSE when an index of the
\* source's slices or of the transposed block is out of range (a Go panic).
colorMaskOf(color) ==
    UNION {Shl(Bits(color, blockBitSize), (blockBitSize * col) + 1) : col \in 0 .. 9}

\* The positions <<row, col, mask>> in the order the scan visits them, and
\* the filled ones among them, in the order the scan appends them.
ScanOrder ==
    [k \in 1 .. (TileSize * BoardWidth) |->
        <<(k - 1) \div BoardWidth, (k - 1) % BoardWidth,
          ColumnBits((k - 1) % BoardWidth)>>]

ScanCells(shape) ==
    LET IsFilled(p) == shape[p[1] + 1] \cap p[3] # {}
    IN  SelectSeq(ScanOrder, IsFilled)

\* A minimum that is never lowered from its start value of zero.
MinColOfZero(cells, i) == 0

RECURSIVE MinColOf(_, _)
MinColOf(cells, i) ==
    IF i > Len(cells) THEN BoardWidth
    ELSE LET rest == MinColOf(cells, i + 1)
         IN  IF cells[i][2] < rest THEN cells[i][2] ELSE rest

RECURSIVE TransposeFrom(_, _, _, _, _)
TransposeFrom(cells, i, minCol, colorMask, transpose) ==
    IF i >= TileSize THEN [ok |-> TRUE, shape |-> transpose]
    ELSE IF i + 1 > Len(cells) THEN [ok |-> FALSE, shape |-> transpose]
    ELSE LET rowIdx == cells[i + 1][1]
             colIdx == cells[i + 1][2]
             transposeMask == ColumnBits(rowIdx + minCol)
             dst == colIdx - minCol
         IN  IF dst >= TileSize THEN [ok |-> FALSE, shape |-> transpose]
             ELSE TransposeFrom(cells, i + 1, minCol, colorMask,
                      [transpose EXCEPT ![dst + 1] = @ \cup (transposeMask \cap colorMask)])

TileRotate(t) ==
    IF t.color = Cyan THEN [ok |-> TRUE, tile |-> t]
    ELSE LET cells == ScanCells(t.shape)
             minCol == MinColOf(cells, 1)
             res == TransposeFrom(cells, 0, minCol, colorMaskOf(t.color),
                                  <<{}, {}, {}, {}>>)
         IN  [ok |-> res.ok,
              tile |-> IF res.ok THEN [t EXCEPT !.shape = res.shape] ELSE t]

(***************************** Board **************************************)

\* NewBoard: an empty grid whose last row, which is not drawn, is full.
EmptyGrid == [row \in 0 .. BoardHeight |-> IF row = BoardHeight THEN FullRow ELSE {}]

\* checkCollisions: "hit", "clear", or "panic" when the grid index is past
\* the last row of the grid.
RECURSIVE CollisionWalk(_, _, _, _)
CollisionWalk(g, shape, row, depth) ==
    IF row < 0 THEN "clear"
    ELSE IF depth > BoardHeight THEN "panic"
    ELSE IF g[depth] \cap shape[row + 1] # {} THEN "hit"
    ELSE IF depth = 0 THEN "clear"
    ELSE CollisionWalk(g, shape, row - 1, depth - 1)

\* A check that walks up from the last row of the block at the depth given.
checkCollisionsNoGap(g, t, depth) == CollisionWalk(g, t.shape, TileSize - 1, depth)

checkCollisions(g, t, depth) ==
    LET bottomGap == GetBottomGap(t)
        d == IF depth > bottomGap THEN depth - bottomGap ELSE depth
        bottomTileDiff == bottomGap + 1
    IN  CollisionWalk(g, t.shape, TileSize - bottomTileDiff, d)

\* Board.Next, lines 251-270: the tile combined into a working copy of the grid.
RECURSIVE MergeWalk(_, _, _, _)
MergeWalk(g, shape, row, boardIdx) ==
    IF row < 0 THEN g
    ELSE LET g2 == [g EXCEPT ![boardIdx] = @ \cup shape[row + 1]]
         IN  IF boardIdx = 0 THEN g2 ELSE MergeWalk(g2, shape, row - 1, boardIdx - 1)

\* The merge without the bottom gap taken into account.
MergeTileNoGap(g, t, depth) ==
    MergeWalk(g, t.shape, TileSize - (GetBottomGap(t) + 1), depth)

MergeTile(g, t, depth) ==
    LET bottomGap == GetBottomGap(t)
        boardIdx == IF depth > bottomGap THEN depth - bottomGap ELSE depth
        bottomTileDiff == bottomGap + 1
    IN  MergeWalk(g, t.shape, TileSize - bottomTileDiff, boardIdx)

\* Board.Next, lines 289-299: filled rows are removed, rows above move down.
\* The result is [grid, cleared]: the grid and the number of score increments.
ShiftDown(g, row) ==
    [i \in 0 .. BoardHeight |->
        IF i = 0 THEN {}
        ELSE IF i <= row THEN g[i - 1]
        ELSE g[i]]

RECURSIVE ClearFrom(_, _, _)
ClearFrom(g, row, cleared) ==
    IF row < 0 THEN [grid |-> g, cleared |-> cleared]
    ELSE IF g[row] = FullRow THEN ClearFrom(ShiftDown(g, row), row - 1, cleared + 1)
    ELSE ClearFrom(g, row - 1, cleared)

ClearRows(g) == ClearFrom(g, BoardHeight - 1, 0)

(***************************** State **************************************)

VARIABLES
    grid,         \* Board.grid: rows 0 .. BoardHeight
    score,        \* Board.score (uint16)
    tile,         \* Board.tile, NilTile for nil
    nextTile,     \* Board.nextTile, NilTile for nil
    tileDepth,    \* Board.tileDepth (uint8)
    op,           \* the call that ran last, and for Next the path it took
    ret,          \* what that call returned: Next's second result, a move's result
    retGrid,      \* the rows Next or Current returned, the calls RenderBoard made to
                  \* its callback; <<>> after any other call
    merged,       \* Next's workingGrid before rows are cleared; <<>> otherwise
    prev,         \* the field state (fieldState) before that call
    gameOver,     \* Next has returned true
    spawnOverlap, \* the active tile lay on filled cells when it became active
    random,       \* the values the random source will yield, in order
    fault,        \* a call panicked (index out of range)
    game,         \* the display that drives the board: "debug", "text" or "none"
    loop,         \* where RenderGame's loop is
    endGame,      \* the local endGame of RenderGame
    listener,     \* where TextGame's event listener goroutine is
    nextCall,     \* the call of Next the loop is in: what it read and decided
    keyCall,      \* the call the event listener is in: what it read and decided
    keys          \* the key events the event listener has taken so far

vars ==
    <<grid, score, tile, nextTile, tileDepth, op, ret, retGrid, merged, prev, gameOver,
      spawnOverlap, random, fault, game, loop, endGame, listener, nextCall, keyCall,
      keys>>

board == <<grid, score, tile, nextTile, tileDepth>>

\* The state of the display that drives the board.
driver == <<game, loop, endGame, listener, nextCall, keyCall, keys>>

\* No call is in progress.
NoCall == [kind |-> "none"]

\* No display: the methods of the board are called in any order.
NoDriver ==
    /\ game = "none"
    /\ loop = "none"
    /\ endGame = FALSE
    /\ listener = "none"
    /\ nextCall = NoCall
    /\ keyCall = NoCall
    /\ keys = 0

\* The fields of the Board struct, and what its random source will yield.
fieldState ==
    [grid |-> grid, score |-> score, tile |-> tile, nextTile |-> nextTile,
     tileDepth |-> tileDepth, random |-> random]

\* grid[:BoardHeight]
Visible(g) == [row \in 0 .. (BoardHeight - 1) |-> g[row]]

(***************************** Reachable boards ***************************)

\* A row with the columns of cols holding colour color.
RowOf(cols, color) ==
    UNION {Shl(Bits(color, blockBitSize), rShiftBlockBitDiff - (blockBitSize * c))
           : c \in cols}

\* Boards left by earlier tiles.
\* Well: 9 upright pipes in columns 0 .. 8.
WellGrid ==
    [row \in 0 .. BoardHeight |->
        IF row = BoardHeight THEN FullRow
        ELSE IF row >= BoardHeight - 4 THEN RowOf(0 .. 8, Red)
        ELSE {}]

\* Ledge: two flat pipes on the floor in columns 0 .. 7 and an upright pipe
\* in column 8.
LedgeGrid ==
    [row \in 0 .. BoardHeight |->
        IF row = BoardHeight THEN FullRow
        ELSE IF row = BoardHeight - 1 THEN RowOf(0 .. 8, Red)
        ELSE IF row >= BoardHeight - 4 THEN RowOf({8}, Red)
        ELSE {}]

\* Squares: four squares on the floor, columns 0 .. 3 and 6 .. 9.
SquaresGrid ==
    [row \in 0 .. BoardHeight |->
        IF row = BoardHeight THEN FullRow
        ELSE IF row >= BoardHeight - 2 THEN RowOf((0 .. 3) \cup (6 .. 9), Cyan)
        ELSE {}]

\* Tower: upright pipes stacked in column 5 up to row 0 (the last one froze
\* with part of it above the board).
TowerGrid ==
    [row \in 0 .. BoardHeight |->
        IF row = BoardHeight THEN FullRow ELSE RowOf({5}, Red)]

\* The largest value of the uint16 score.
MaxScore == 65535

\* The boards the model starts from besides the fresh one, each with the
\* depth at which its last tile froze, whether that freeze ended the game,
\* and the score (rows removed so far; one board is late in a long game).
PlayedBoards ==
    {[grid |-> WellGrid, tileDepth |-> BoardHeight - 1, gameOver |-> FALSE, score |-> 0],
     [grid |-> LedgeGrid, tileDepth |-> BoardHeight - 1, gameOver |-> FALSE, score |-> 0],
     [grid |-> LedgeGrid, tileDepth |-> BoardHeight - 1, gameOver |-> FALSE,
      score |-> MaxScore],
     [grid |-> SquaresGrid, tileDepth |-> BoardHeight, gameOver |-> FALSE, score |-> 0],
     [grid |-> TowerGrid, tileDepth |-> BoardHeight - 5, gameOver |-> TRUE, score |-> 0]}

\* The random source: MaxTiles + 1 draws of Intn(7), the values that follow
\* one another from any first value.
RandomStreams ==
    {[k \in 1 .. (MaxTiles + 1) |-> (first + k - 1) % 7] : first \in 0 .. 6}

\* The row of the tile that checkCollisions pairs with grid row i when the
\* tile is at depth: the empty row when it pairs none.
PieceRowAt(t, depth, i) ==
    LET bottomGap == GetBottomGap(t)
        base == IF depth > bottomGap THEN depth - bottomGap ELSE depth
        row == (TileSize - 1 - bottomGap) - (base - i)
    IN  IF i <= base /\ row >= 0 THEN t.shape[row + 1] ELSE {}

\* The columns of a row that hold a colour.
Filled(r) == {col \in 0 .. (BoardWidth - 1) : CellColor(r, col) # 0}

\* Some filled cell of the tile, placed at depth, lies on a filled cell of g.
Overlaps(g, t, depth) ==
    \E i \in 0 .. (BoardHeight - 1) : Filled(g[i]) \cap Filled(PieceRowAt(t, depth, i)) # {}

(***************************** Actions ************************************)

Init ==
    /\ \E stream \in RandomStreams :
          \/ /\ grid = EmptyGrid
             /\ nextTile = NilTile
             /\ random = stream
             /\ tileDepth = 0
             /\ gameOver = FALSE
             /\ score = 0
          \/ \E b \in PlayedBoards :
                /\ grid = b.grid
                /\ nextTile = PickTile(Head(stream))
                /\ random = Tail(stream)
                /\ tileDepth = b.tileDepth
                /\ gameOver = b.gameOver
                /\ score = b.score
    /\ tile = NilTile
    /\ op = "NewBoard"
    /\ ret = FALSE
    /\ retGrid = <<>>
    /\ merged = <<>>
    /\ spawnOverlap = FALSE
    /\ prev = fieldState
    /\ fault = FALSE
    /\ NoDriver

\* A settle that leaves the depth of the last tile in place.
settleTickKeepsDepth ==
    LET first == nextTile = NilTile
        rest == IF first THEN Tail(random) ELSE random
    IN  [tile |-> IF first THEN PickTile(Head(random)) ELSE nextTile,
         nextTile |-> PickTile(Head(rest)),
         tileDepth |-> tileDepth,
         random |-> Tail(rest),
         retGrid |-> Visible(grid),
         ret |-> FALSE]

\* Board.Next, lines 228-241: no tile is active.
settleTick ==
    LET first == nextTile = NilTile
        rest == IF first THEN Tail(random) ELSE random
    IN  [tile |-> IF first THEN PickTile(Head(random)) ELSE nextTile,
         nextTile |-> PickTile(Head(rest)),
         tileDepth |-> 0,
         random |-> Tail(rest),
         retGrid |-> Visible(grid),
         ret |-> FALSE]

NextSettle ==
    /\ ~fault
    /\ tile = NilTile
    /\ Len(random) >= (IF nextTile = NilTile THEN 2 ELSE 1)
    /\ LET r == settleTick
       IN  /\ tile' = r.tile
           /\ nextTile' = r.nextTile
           /\ tileDepth' = r.tileDepth
           /\ random' = r.random
           /\ retGrid' = r.retGrid
           /\ ret' = r.ret
           /\ spawnOverlap' = Overlaps(grid, r.tile, r.tileDepth)
    /\ op' = "settle"
    /\ merged' = <<>>
    /\ prev' = fieldState
    /\ UNCHANGED <<grid, score, gameOver, fault>>
    /\ UNCHANGED driver

\* A fall that leaves the tile at its depth.
fallTickStalls ==
    LET workingGrid == MergeTile(grid, tile, tileDepth)
    IN  [tileDepth |-> tileDepth,
         workingGrid |-> workingGrid,
         retGrid |-> Visible(workingGrid),
         ret |-> FALSE]

\* A fall that moves the tile up again.
fallTickRises ==
    LET workingGrid == MergeTile(grid, tile, tileDepth)
    IN  [tileDepth |-> IF tileDepth > 0 THEN tileDepth - 1 ELSE 0,
         workingGrid |-> workingGrid,
         retGrid |-> Visible(workingGrid),
         ret |-> FALSE]

\* A fall of two rows.
fallTickTwoRows ==
    LET workingGrid == MergeTile(grid, tile, tileDepth)
    IN  [tileDepth |-> (tileDepth + 2) % 256,
         workingGrid |-> workingGrid,
         retGrid |-> Visible(workingGrid),
         ret |-> FALSE]

\* Board.Next, lines 243-305, when no collision is detected in the next move.
fallTick ==
    LET workingGrid == MergeTile(grid, tile, tileDepth)
    IN  [tileDepth |-> (tileDepth + 1) % 256,
         workingGrid |-> workingGrid,
         retGrid |-> Visible(workingGrid),
         ret |-> FALSE]

\* A fall that keeps the working grid as the grid.
NextFallPersists ==
    /\ ~fault
    /\ tile # NilTile
    /\ checkCollisions(grid, tile, (tileDepth + 1) % 256) = "clear"
    /\ LET r == fallTick
       IN  /\ tileDepth' = r.tileDepth
           /\ retGrid' = r.retGrid
           /\ merged' = r.workingGrid
           /\ grid' = r.workingGrid
           /\ ret' = r.ret
    /\ op' = "fall"
    /\ prev' = fieldState
    /\ UNCHANGED <<score, tile, nextTile, gameOver, spawnOverlap, random, fault>>
    /\ UNCHANGED driver

NextFall ==
    /\ ~fault
    /\ tile # NilTile
    /\ checkCollisions(grid, tile, (tileDepth + 1) % 256) = "clear"
    /\ LET r == fallTick
       IN  /\ tileDepth' = r.tileDepth
           /\ retGrid' = r.retGrid
           /\ merged' = r.workingGrid
           /\ ret' = r.ret
    /\ op' = "fall"
    /\ prev' = fieldState
    /\ UNCHANGED <<grid, score, tile, nextTile, gameOver, spawnOverlap, random, fault>>
    /\ UNCHANGED driver

\* A freeze that drops the tile without combining it into the grid.
freezeTickNoMerge ==
    [grid |-> grid,
     score |-> score,
     workingGrid |-> grid,
     retGrid |-> Visible(grid),
     ret |-> tileDepth < TileSize]

\* Board.Next, lines 243-305, when a collision is detected in the next move.
freezeTick ==
    LET workingGrid == MergeTile(grid, tile, tileDepth)
        res == ClearRows(workingGrid)
    IN  [grid |-> res.grid,
         score |-> (score + res.cleared) % (MaxScore + 1),
         workingGrid |-> workingGrid,
         retGrid |-> Visible(res.grid),
         ret |-> tileDepth < TileSize]

NextFreeze ==
    /\ ~fault
    /\ tile # NilTile
    /\ checkCollisions(grid, tile, (tileDepth + 1) % 256) = "hit"
    /\ LET r == freezeTick
       IN  /\ grid' = r.grid
           /\ score' = r.score
           /\ retGrid' = r.retGrid
           /\ merged' = r.workingGrid
           /\ ret' = r.ret
           /\ gameOver' = (gameOver \/ r.ret)
    /\ tile' = NilTile
    /\ op' = "freeze"
    /\ prev' = fieldState
    /\ UNCHANGED <<nextTile, tileDepth, spawnOverlap, random, fault>>
    /\ UNCHANGED driver

BoardNext == NextSettle \/ NextFall \/ NextFreeze

\* What a move leaves behind: its name, its result, and no rows returned.
Returned(name, result) ==
    /\ op' = name
    /\ ret' = result
    /\ retGrid' = <<>>
    /\ merged' = <<>>
    /\ prev' = fieldState
    /\ UNCHANGED <<gameOver, spawnOverlap, random>>
    /\ UNCHANGED driver

\* A moveX that commits the moved tile whatever checkCollisions says.
moveXUnchecked(direction) ==
    IF tile = NilTile THEN [ret |-> FALSE, tile |-> tile, fault |-> FALSE]
    ELSE [ret |-> TRUE, tile |-> TileMoveX(tile, direction), fault |-> FALSE]

\* Board.moveX.  The result is [ret, tile, fault].
moveX(direction) ==
    IF tile = NilTile THEN [ret |-> FALSE, tile |-> tile, fault |-> FALSE]
    ELSE LET tempTile == TileMoveX(tile, direction)
             c == checkCollisions(grid, tempTile, tileDepth)
         IN  IF c = "panic" THEN [ret |-> FALSE, tile |-> tile, fault |-> TRUE]
             ELSE IF c = "hit" THEN [ret |-> FALSE, tile |-> tile, fault |-> FALSE]
             ELSE [ret |-> TRUE, tile |-> tempTile, fault |-> FALSE]

MoveLeft ==
    /\ ~fault
    /\ LET r == moveX(Left)
       IN  /\ tile' = r.tile
           /\ fault' = r.fault
           /\ Returned("MoveLeft", r.ret)
    /\ UNCHANGED <<grid, score, nextTile, tileDepth>>

MoveRight ==
    /\ ~fault
    /\ LET r == moveX(Right)
       IN  /\ tile' = r.tile
           /\ fault' = r.fault
           /\ Returned("MoveRight", r.ret)
    /\ UNCHANGED <<grid, score, nextTile, tileDepth>>

\* Board.Rotate, lines 196-210: a tile close to an edge is shifted away from
\* it twice before it is rotated; the first row that touches an edge decides.
rotateLeftBoundMask == ColumnBits(0) \cup ColumnBits(1)
rotateRightBoundMask == ColumnBits(BoardWidth - 2) \cup ColumnBits(BoardWidth - 1)

RECURSIVE ShiftFromEdge(_, _)
ShiftFromEdge(t, row) ==
    IF row >= TileSize THEN t
    ELSE IF t.shape[row + 1] \cap rotateLeftBoundMask # {}
    THEN TileMoveX(TileMoveX(t, Right), Right)
    ELSE IF t.shape[row + 1] \cap rotateRightBoundMask # {}
    THEN TileMoveX(TileMoveX(t, Left), Left)
    ELSE ShiftFromEdge(t, row + 1)

\* Board.Rotate.  The result is [ret, tile, fault].
rotate ==
    IF tile = NilTile THEN [ret |-> FALSE, tile |-> tile, fault |-> FALSE]
    ELSE LET rotated == TileRotate(ShiftFromEdge(tile, 0))
             c == IF rotated.ok THEN checkCollisions(grid, rotated.tile, tileDepth)
                  ELSE "panic"
         IN  IF c = "panic" THEN [ret |-> FALSE, tile |-> tile, fault |-> TRUE]
             ELSE IF c = "hit" THEN [ret |-> FALSE, tile |-> tile, fault |-> FALSE]
             ELSE [ret |-> TRUE, tile |-> rotated.tile, fault |-> FALSE]

Rotate ==
    /\ ~fault
    /\ LET r == rotate
       IN  /\ tile' = r.tile
           /\ fault' = r.fault
           /\ Returned("Rotate", r.ret)
    /\ UNCHANGED <<grid, score, nextTile, tileDepth>>

\* A soft drop of two rows.
moveDownTwoRows(depth) ==
    IF tile = NilTile THEN [ret |-> FALSE, depth |-> depth, fault |-> FALSE]
    ELSE IF checkCollisions(grid, tile, (depth + 1) % 256) = "clear"
    THEN [ret |-> TRUE, depth |-> (depth + 2) % 256, fault |-> FALSE]
    ELSE [ret |-> FALSE, depth |-> depth, fault |-> FALSE]

\* MoveDown (soft drop): one row down if that position is clear.
\* The result is [ret, depth, fault].
moveDown(depth) ==
    IF tile = NilTile THEN [ret |-> FALSE, depth |-> depth, fault |-> FALSE]
    ELSE LET c == checkCollisions(grid, tile, (depth + 1) % 256)
         IN  IF c = "panic" THEN [ret |-> FALSE, depth |-> depth, fault |-> TRUE]
             ELSE IF c = "hit" THEN [ret |-> FALSE, depth |-> depth, fault |-> FALSE]
             ELSE [ret |-> TRUE, depth |-> (depth + 1) % 256, fault |-> FALSE]

MoveDown ==
    /\ ~fault
    /\ LET r == moveDown(tileDepth)
       IN  /\ tileDepth' = r.depth
           /\ fault' = r.fault
           /\ Returned("MoveDown", r.ret)
    /\ UNCHANGED <<grid, score, tile, nextTile>>

\* A hard drop that is a single soft drop.
fastDownOnce(depth) ==
    LET r == moveDown(depth)
    IN  [r EXCEPT !.ret = FALSE]

\* MoveFastDown (hard drop): soft drops until one returns false.
RECURSIVE fastDown(_)
fastDown(depth) ==
    LET r == moveDown(depth)
    IN  IF r.ret THEN fastDown(r.depth) ELSE r

MoveFastDown ==
    /\ ~fault
    /\ LET r == fastDown(tileDepth)
       IN  /\ tileDepth' = r.depth
           /\ fault' = r.fault
           /\ Returned("MoveFastDown", FALSE)
    /\ UNCHANGED <<grid, score, tile, nextTile>>

\* A Current that leaves the active tile out.
currentNoTile == Visible(grid)

\* Current: the grid to draw, with the active tile merged in when there is one.
current == IF tile = NilTile THEN Visible(grid) ELSE Visible(MergeTile(grid, tile, tileDepth))

Current ==
    /\ ~fault
    /\ op' = "Current"
    /\ ret' = FALSE
    /\ retGrid' = current
    /\ merged' = <<>>
    /\ prev' = fieldState
    /\ UNCHANGED <<grid, score, tile, nextTile, tileDepth, gameOver, spawnOverlap, random,
                   fault>>
    /\ UNCHANGED driver

\* A RenderBoard that goes through every row of the grid.
renderBoardAllRows ==
    [k \in 1 .. (BoardWidth * (BoardHeight + 1)) |->
        [row |-> (k - 1) \div BoardWidth,
         col |-> (k - 1) % BoardWidth,
         isEOL |-> (k - 1) % BoardWidth = BoardWidth - 1,
         color |-> CellColor(grid[(k - 1) \div BoardWidth], (k - 1) % BoardWidth)]]

\* RenderBoard: the calls made to the callback, in order, each with its
\* (row, col, isEOL, color): every cell of the rows that are drawn, row by row.
renderBoard ==
    LET snapshot == current
    IN  [k \in 1 .. (BoardWidth * BoardHeight) |->
            [row |-> (k - 1) \div BoardWidth,
             col |-> (k - 1) % BoardWidth,
             isEOL |-> (k - 1) % BoardWidth = BoardWidth - 1,
             color |-> CellColor(snapshot[(k - 1) \div BoardWidth], (k - 1) % BoardWidth)]]

RenderBoard ==
    /\ ~fault
    /\ op' = "RenderBoard"
    /\ ret' = FALSE
    /\ retGrid' = renderBoard
    /\ merged' = <<>>
    /\ prev' = fieldState
    /\ UNCHANGED <<grid, score, tile, nextTile, tileDepth, gameOver, spawnOverlap, random,
                   fault>>
    /\ UNCHANGED driver

Next ==
    \/ BoardNext
    \/ MoveLeft
    \/ MoveRight
    \/ Rotate
    \/ MoveDown
    \/ MoveFastDown
    \/ Current
    \/ RenderBoard

Spec == Init /\ [][Next]_vars

(***************************** The tile alone *****************************)

\* A tile as PickTile returns it, with Tile.MoveX and Tile.Rotate called on
\* it in any order; no board is involved.
TileInit ==
    /\ \E draw \in 0 .. 6 : tile = PickTile(draw)
    /\ grid = EmptyGrid
    /\ score = 0
    /\ nextTile = NilTile
    /\ tileDepth = 0
    /\ op = "PickTile"
    /\ ret = FALSE
    /\ retGrid = <<>>
    /\ merged = <<>>
    /\ gameOver = FALSE
    /\ spawnOverlap = FALSE
    /\ random = <<>>
    /\ prev = fieldState
    /\ fault = FALSE
    /\ NoDriver

\* What a call on the tile leaves unchanged.
TileFrame ==
    /\ prev' = fieldState
    /\ UNCHANGED <<grid, score, nextTile, tileDepth, ret, retGrid, merged, gameOver,
                   spawnOverlap, random>>
    /\ UNCHANGED driver

TileMoveLeft ==
    /\ ~fault
    /\ tile' = TileMoveX(tile, Left)
    /\ op' = "Tile.MoveX(Left)"
    /\ UNCHANGED fault
    /\ TileFrame

TileMoveRight ==
    /\ ~fault
    /\ tile' = TileMoveX(tile, Right)
    /\ op' = "Tile.MoveX(Right)"
    /\ UNCHANGED fault
    /\ TileFrame

\* Tile.Rotate; the call panics when a list index is out of range.
TileTurn ==
    /\ ~fault
    /\ LET r == TileRotate(tile)
       IN  /\ tile' = r.tile
           /\ fault' = ~r.ok
    /\ op' = "Tile.Rotate"
    /\ TileFrame

\* Tile.GetBottomGap: the receiver is a copy of the tile, whose rows are
\* read and never written; the count returned is a uint8 of at most four.
TileGetBottomGap ==
    /\ ~fault
    /\ GetBottomGap(tile) \in 0 .. TileSize
    /\ tile' = tile
    /\ op' = "Tile.GetBottomGap"
    /\ UNCHANGED fault
    /\ TileFrame

TileNext == TileMoveLeft \/ TileMoveRight \/ TileTurn \/ TileGetBottomGap

TileSpec == TileInit /\ [][TileNext]_vars

(***************************** The displays *******************************)

\* The actions a key stands for.
ActionIllegal == 0
ActionLeft == 1
ActionRight == 2
ActionDown == 3
ActionFastDown == 4
ActionRotate == 5
ActionExit == 6

Actions == ActionIllegal .. ActionExit

\* The key events the event listener of the text game takes in one game.
MaxKeys == 2

\* ActionHandler's cases that call a method of the board.
BoardActions == {ActionLeft, ActionRight, ActionDown, ActionFastDown, ActionRotate}

\* Next can pick the tiles it needs from the random source.
CanSettle == Len(random) >= (IF nextTile = NilTile THEN 2 ELSE 1)

\* What a call of Next reads from the board and decides on it: the path it
\* takes and the values it is going to write.
nextDecision ==
    IF tile = NilTile THEN [kind |-> "settle", r |-> settleTick]
    ELSE LET c == checkCollisions(grid, tile, (tileDepth + 1) % 256)
         IN  IF c = "clear" THEN [kind |-> "fall", r |-> fallTick]
             ELSE IF c = "hit" THEN [kind |-> "freeze", r |-> freezeTick]
             ELSE [kind |-> "panic", r |-> [ret |-> FALSE, retGrid |-> <<>>]]

\* The writes of a call of Next that decided c, and what it returns.
finishNext(c) ==
    /\ tile' = (IF c.kind = "settle" THEN c.r.tile
                ELSE IF c.kind = "freeze" THEN NilTile ELSE tile)
    /\ nextTile' = (IF c.kind = "settle" THEN c.r.nextTile ELSE nextTile)
    /\ random' = (IF c.kind = "settle" THEN c.r.random ELSE random)
    /\ tileDepth' = (IF c.kind \in {"settle", "fall"} THEN c.r.tileDepth ELSE tileDepth)
    /\ grid' = (IF c.kind = "freeze" THEN c.r.grid ELSE grid)
    /\ score' = (IF c.kind = "freeze" THEN c.r.score ELSE score)
    /\ spawnOverlap' = (IF c.kind = "settle" THEN Overlaps(grid, c.r.tile, c.r.tileDepth)
                        ELSE spawnOverlap)
    /\ merged' = (IF c.kind \in {"fall", "freeze"} THEN c.r.workingGrid ELSE <<>>)
    /\ fault' = (c.kind = "panic")
    /\ gameOver' = (gameOver \/ c.r.ret)
    /\ op' = c.kind
    /\ ret' = c.r.ret
    /\ retGrid' = c.r.retGrid
    /\ prev' = fieldState

\* What the method of the board that ActionHandler calls for an action reads
\* and decides: the method, its result, and whether it is going to write.
keyDecision(action) ==
    IF action = ActionLeft THEN [kind |-> "MoveLeft", r |-> moveX(Left)]
    ELSE IF action = ActionRight THEN [kind |-> "MoveRight", r |-> moveX(Right)]
    ELSE IF action = ActionRotate THEN [kind |-> "Rotate", r |-> rotate]
    ELSE IF action = ActionDown
    THEN LET r == moveDown(tileDepth)
         IN  [kind |-> "MoveDown", r |-> r, moved |-> r.depth # tileDepth]
    ELSE IF action = ActionFastDown
    THEN LET r == fastDown(tileDepth)
         IN  [kind |-> "MoveFastDown", r |-> [r EXCEPT !.ret = FALSE],
              moved |-> r.depth # tileDepth]
    ELSE NoCall

\* The writes of a method that decided c.  A move or a rotation that took
\* place is written through the pointer to the active tile; that panics when
\* the pointer has become nil since the method read it.
finishKey(c) ==
    IF c.kind = "none" THEN UNCHANGED <<board, op, ret, retGrid, merged, prev, fault>>
    ELSE /\ tile' = (IF c.kind \in {"MoveLeft", "MoveRight", "Rotate"} /\ c.r.ret
                        /\ tile # NilTile
                     THEN c.r.tile ELSE tile)
         /\ tileDepth' = (IF c.kind \in {"MoveDown", "MoveFastDown"} /\ c.moved
                          THEN c.r.depth ELSE tileDepth)
         /\ fault' = \/ c.r.fault
                     \/ c.kind \in {"MoveLeft", "MoveRight", "Rotate"} /\ c.r.ret
                            /\ tile = NilTile
         /\ op' = c.kind
         /\ ret' = c.r.ret
         /\ retGrid' = <<>>
         /\ merged' = <<>>
         /\ prev' = fieldState
         /\ UNCHANGED <<grid, score, nextTile>>

\* A loop that goes on whatever endGame says.
afterCheckAlways(done) == "next"

\* `if endGame { break }`
afterCheck(done) == IF done THEN "done" ELSE "next"

\* A game in progress on a new board or on a board left by earlier tiles,
\* at the top of RenderGame's loop.
GameInit ==
    /\ \E stream \in RandomStreams :
          \/ /\ grid = EmptyGrid
             /\ nextTile = NilTile
             /\ random = stream
             /\ tileDepth = 0
             /\ score = 0
          \/ \E b \in {p \in PlayedBoards : ~p.gameOver} :
                /\ grid = b.grid
                /\ nextTile = PickTile(Head(stream))
                /\ random = Tail(stream)
                /\ tileDepth = b.tileDepth
                /\ score = b.score
    /\ gameOver = FALSE
    /\ tile = NilTile
    /\ op = "NewBoard"
    /\ ret = FALSE
    /\ retGrid = <<>>
    /\ merged = <<>>
    /\ spawnOverlap = FALSE
    /\ prev = fieldState
    /\ fault = FALSE
    /\ game \in {"debug", "text"}
    /\ loop = "next"
    /\ endGame = FALSE
    /\ listener = (IF game = "text" THEN "poll" ELSE "none")
    /\ nextCall = NoCall
    /\ keyCall = NoCall
    /\ keys = 0

\* DebugGame.RenderGame: Next, then the board is drawn.
DebugNext ==
    /\ game = "debug"
    /\ loop = "next"
    /\ ~fault
    /\ (tile = NilTile) => CanSettle
    /\ finishNext(nextDecision)
    /\ endGame' = nextDecision.r.ret
    /\ loop' = "read"
    /\ UNCHANGED <<game, listener, nextCall, keyCall, keys>>

\* DebugGame.RenderGame: a line is read, ActionHandler runs its action, and
\* the loop ends when endGame is set.
DebugKey(action) ==
    /\ game = "debug"
    /\ loop = "read"
    /\ ~fault
    /\ IF action = ActionExit
       THEN /\ endGame' = TRUE
            /\ op' = "ActionExit"
            /\ UNCHANGED <<board, ret, retGrid, merged, prev, fault>>
       ELSE /\ finishKey(keyDecision(action))
            /\ UNCHANGED endGame
    /\ loop' = afterCheck(endGame')
    /\ UNCHANGED <<gameOver, spawnOverlap, random, game, listener, nextCall, keyCall,
                   keys>>

DebugInput == \E action \in Actions : DebugKey(action)

\* TextGame.RenderGame: the loop's goroutine enters Next.
TextNextEnter ==
    /\ game = "text"
    /\ loop = "next"
    /\ ~fault
    /\ (tile = NilTile) => CanSettle
    /\ nextCall' = nextDecision
    /\ loop' = "inNext"
    /\ UNCHANGED <<board, op, ret, retGrid, merged, prev, gameOver, spawnOverlap, random,
                   fault, game, endGame, listener, keyCall, keys>>

\* TextGame.RenderGame: Next writes and returns, the board is drawn and the
\* loop sleeps.
TextNextReturn ==
    /\ game = "text"
    /\ loop = "inNext"
    /\ ~fault
    /\ finishNext(nextCall)
    /\ endGame' = nextCall.r.ret
    /\ loop' = "sleep"
    /\ nextCall' = NoCall
    /\ UNCHANGED <<game, listener, keyCall, keys>>

\* TextGame.RenderGame: after the sleep the loop ends when endGame is set.
TextWake ==
    /\ game = "text"
    /\ loop = "sleep"
    /\ ~fault
    /\ loop' = afterCheck(endGame)
    /\ UNCHANGED <<board, op, ret, retGrid, merged, prev, gameOver, spawnOverlap, random,
                   fault, game, endGame, listener, nextCall, keyCall, keys>>

\* TextGame.initEventListener: a key event arrives and the listener's
\* goroutine enters the method of the board that ActionHandler calls for it.
ListenEnter ==
    /\ game = "text"
    /\ listener = "poll"
    /\ ~fault
    /\ keys < MaxKeys
    /\ \E action \in BoardActions : keyCall' = keyDecision(action)
    /\ listener' = "inCall"
    /\ keys' = keys + 1
    /\ UNCHANGED <<board, op, ret, retGrid, merged, prev, gameOver, spawnOverlap, random,
                   fault, game, loop, endGame, nextCall>>

\* TextGame.initEventListener: the method writes and returns, the board is
\* drawn and the listener polls again.
ListenReturn ==
    /\ game = "text"
    /\ listener = "inCall"
    /\ ~fault
    /\ finishKey(keyCall)
    /\ listener' = "poll"
    /\ keyCall' = NoCall
    /\ UNCHANGED <<gameOver, spawnOverlap, random, game, loop, endGame, nextCall, keys>>

\* TextGame.initEventListener: Esc or Ctrl-C; the exit callback ends the
\* process.
ListenExit ==
    /\ game = "text"
    /\ listener = "poll"
    /\ ~fault
    /\ listener' = "exited"
    /\ loop' = "exited"
    /\ op' = "ActionExit"
    /\ UNCHANGED <<board, ret, retGrid, merged, prev, gameOver, spawnOverlap, random,
                   fault, game, endGame, nextCall, keyCall, keys>>

GameNext ==
    \/ DebugNext
    \/ DebugInput
    \/ TextNextEnter
    \/ TextNextReturn
    \/ TextWake
    \/ ListenEnter
    \/ ListenReturn
    \/ ListenExit

GameSpec == GameInit /\ [][GameNext]_vars

(***************************** Claims *************************************)

Ticks == {"settle", "fall", "freeze"}

\* C1: when Next is called while no tile is active, the tile that was next
\* becomes the active tile (on a fresh board, a picked one), a new next tile
\* is picked, the depth is 0, the grid and the score are unchanged, and the
\* call returns the visible rows of the grid, without the tile, and false.
C1_SettleTick ==
    (op \in Ticks /\ prev.tile = NilTile) =>
        /\ op = "settle"
        /\ tile # NilTile
        /\ prev.nextTile # NilTile => tile = prev.nextTile
        /\ \E i \in 1 .. 7 : tile = tiles[i]
        /\ \E i \in 1 .. 7 : nextTile = tiles[i]
        /\ tileDepth = 0
        /\ grid = prev.grid
        /\ score = prev.score
        /\ retGrid = Visible(prev.grid)
        /\ ret = FALSE

\* The first Next on a fresh board has run.
C1_Witness == op = "settle" /\ prev.nextTile = NilTile /\ prev.grid = EmptyGrid

\* C2: when Next is called with an active tile and checkCollisions is false
\* one row further down, the depth grows by exactly 1, the grid, the score,
\* the tile and the next tile are unchanged, and the call returns false.
C2_FallTick ==
    (/\ op \in Ticks
     /\ prev.tile # NilTile
     /\ checkCollisions(prev.grid, prev.tile, prev.tileDepth + 1) = "clear") =>
        /\ tileDepth = prev.tileDepth + 1
        /\ grid = prev.grid
        /\ score = prev.score
        /\ tile = prev.tile
        /\ nextTile = prev.nextTile
        /\ ret = FALSE

C2_Witness == op = "fall" /\ prev.tileDepth >= 2 /\ prev.grid # EmptyGrid

\* C3: when Next is called with an active tile and checkCollisions is true
\* one row further down, the tile becomes nil and the grid, before rows are
\* cleared, is the old grid with the tile's rows OR-ed in at the rows the
\* collision check pairs them with at the current depth (PieceRowAt); every
\* other bit of the grid is as before.
C3_FreezeMerge ==
    (/\ op \in Ticks
     /\ prev.tile # NilTile
     /\ checkCollisions(prev.grid, prev.tile, prev.tileDepth + 1) = "hit") =>
        /\ tile = NilTile
        /\ DOMAIN merged = 0 .. BoardHeight
        /\ \A i \in 0 .. BoardHeight :
              merged[i] = prev.grid[i] \cup PieceRowAt(prev.tile, prev.tileDepth, i)

\* A tile with a gap under it (a flat or rotated one) froze well inside the board.
C3_Witness ==
    /\ op = "freeze"
    /\ GetBottomGap(prev.tile) >= 1
    /\ prev.tileDepth > TileSize
    /\ merged # prev.grid

\* A row whose BoardWidth cells all hold a colour, and the visible rows of a
\* grid that are such rows.
Complete(r) == Filled(r) = 0 .. (BoardWidth - 1)
CompleteRows(g) == {r \in 0 .. (BoardHeight - 1) : Complete(g[r])}

\* C4: after a Next that froze the tile, no visible row of the grid is
\* complete, however many rows the freeze completed.
C4_CascadingClear == op = "freeze" => CompleteRows(grid) = {}

C6_QuadraticScoring ==
    /\ op = "freeze" =>
          LET N == ClearRows(merged).cleared
          IN  score = prev.score + (N * N)
    /\ op \notin {"freeze", "NewBoard"} => score = prev.score

\* Some filled row of the tile, placed at depth, lies above row 0.
AboveBoard(t, depth) ==
    LET bottomGap == GetBottomGap(t)
        base == IF depth > bottomGap THEN depth - bottomGap ELSE depth
        bottomRow == TileSize - 1 - bottomGap
    IN  \E row \in 0 .. bottomRow :
            t.shape[row + 1] # {} /\ base - (bottomRow - row) < 0

\* C7: Next returns true exactly when it froze the tile while a filled row of
\* the tile was above row 0; settle and fall ticks return false.
C7_GameOver ==
    op \in Ticks =>
        (ret = TRUE <=> (op = "freeze" /\ AboveBoard(prev.tile, prev.tileDepth)))

\* C8: a tile that lay on filled cells of the grid when it became active
\* makes the Next that freezes it return true, whatever moves came between.
C8_BlockedSpawn == (op = "freeze" /\ spawnOverlap) => ret = TRUE

Moves == {"MoveLeft", "MoveRight", "Rotate", "MoveDown"}

\* The outcome of the collision check on the position a move tries.
Tentative(name, s) ==
    IF name = "MoveLeft" THEN checkCollisions(s.grid, TileMoveX(s.tile, Left), s.tileDepth)
    ELSE IF name = "MoveRight"
    THEN checkCollisions(s.grid, TileMoveX(s.tile, Right), s.tileDepth)
    ELSE IF name = "Rotate"
    THEN LET rotated == TileRotate(ShiftFromEdge(s.tile, 0))
         IN  IF rotated.ok THEN checkCollisions(s.grid, rotated.tile, s.tileDepth)
             ELSE "panic"
    ELSE checkCollisions(s.grid, s.tile, s.tileDepth + 1)

\* C9: MoveLeft, MoveRight, Rotate and MoveDown, called with no active tile
\* or with a tentative position that collides with the grid, return false and
\* leave grid, score, tile, next tile and depth as they were.
C9_IllegalMoveRejected ==
    (op \in Moves /\ (prev.tile = NilTile \/ Tentative(op, prev) = "hit")) =>
        /\ ret = FALSE
        /\ fieldState = prev

\* A MoveLeft onto filled cells of the grid has been rejected.
C9_Witness ==
    /\ op = "MoveLeft"
    /\ ret = FALSE
    /\ prev.tile # NilTile
    /\ Tentative("MoveLeft", prev) = "hit"
    /\ TileMoveX(prev.tile, Left) # prev.tile

\* The shape moved by one cell in a direction.
ShiftedShape(shape, direction) ==
    [row \in 1 .. TileSize |->
        IF direction = Left THEN Shl(shape[row], blockBitSize)
        ELSE Shr(shape[row], blockBitSize)]

\* C10: MoveLeft and MoveRight return true exactly when the active tile's
\* shape was shifted by one cell in the direction asked for; at the edge of
\* the board, where the shape does not change, they return false.
C10_MoveHappened ==
    op \in {"MoveLeft", "MoveRight"} =>
        (ret = TRUE <=>
            /\ prev.tile # NilTile
            /\ tile.shape # prev.tile.shape
            /\ tile.shape = ShiftedShape(prev.tile.shape, op = "MoveLeft"))

\* C11: no call faults: every grid row index the collision check and the
\* merge use is within 0 .. BoardHeight and every index into the lists of
\* filled positions in Tile.Rotate is valid, also for a rotate that makes the
\* bottom gap smaller while the tile is deep in the board.
C11_NoFault == ~fault

C13_PieceInvariant ==
    /\ tile.color # Transparent
    /\ \A row \in 1 .. TileSize :
          /\ tile.shape[row] \subseteq FullRow
          /\ \A col \in 0 .. (BoardWidth - 1) :
                CellColor(tile.shape[row], col) \in {Transparent, tile.color}

\* A tile that is not the square has been rotated away from a wall it had
\* been moved to.
C13_Witness ==
    /\ op = "Tile.Rotate"
    /\ ~fault
    /\ tile.shape # prev.tile.shape
    /\ \E row \in 1 .. TileSize : prev.tile.shape[row] \cap leftBoundMask # {}

\* A row of the tile touches the edge of the board on that side.
Blocked(t, direction) ==
    \E row \in 1 .. TileSize :
        t.shape[row] \cap (IF direction = Left THEN leftBoundMask ELSE rightBoundMask) # {}

\* C20: a MoveX to the left followed by a MoveX to the right, and a MoveX to
\* the right followed by one to the left, give back the shape the tile had
\* before the two calls, bit for bit, when neither call was stopped by the
\* edge of the board.
C20_ShiftRoundTrip ==
    [][/\ (op = "Tile.MoveX(Left)" /\ ~Blocked(prev.tile, Left)
           /\ TileMoveRight /\ ~Blocked(tile, Right)) => tile' = prev.tile
       /\ (op = "Tile.MoveX(Right)" /\ ~Blocked(prev.tile, Right)
           /\ TileMoveLeft /\ ~Blocked(tile, Left)) => tile' = prev.tile]_vars

\* A rotated tile has been moved right and left again without being stopped.
C20_Witness ==
    /\ op = "Tile.MoveX(Left)"
    /\ ~Blocked(prev.tile, Left)
    /\ ~Blocked(TileMoveX(prev.tile, Left), Right)
    /\ tile = TileMoveX(prev.tile, Left)
    /\ TileMoveX(tile, Right) = prev.tile
    /\ GetBottomGap(tile) >= 2

\* C14: the depth is set to 0 by the Next that makes a tile active and by no
\* other call: MoveLeft, MoveRight, Rotate and Current leave it as it was,
\* and the other Next calls, MoveDown and MoveFastDown never make it smaller.
C14_DepthDiscipline ==
    /\ op = "settle" => tileDepth = 0
    /\ op \in {"MoveLeft", "MoveRight", "Rotate", "Current"} => tileDepth = prev.tileDepth
    /\ op \in {"fall", "freeze", "MoveDown", "MoveFastDown"} => tileDepth >= prev.tileDepth
    /\ (op \notin {"settle", "NewBoard"} /\ tileDepth = 0) => prev.tileDepth = 0

\* A tile became active on a board whose last tile had frozen at a depth
\* above 0.
C14_Witness == op = "settle" /\ prev.tileDepth > 0 /\ tileDepth = 0

\* C15: no call makes the score smaller, also when the score holds the
\* largest value of its type.
C15_ScoreMonotone == op # "NewBoard" => score >= prev.score

\* The grid with the tile at depth, row by row as the collision check pairs
\* the rows.
WithTile(g, t, depth) ==
    [i \in 0 .. (BoardHeight - 1) |-> g[i] \cup PieceRowAt(t, depth, i)]

\* C16: Current changes no field; it returns the visible rows of the grid
\* when no tile is active and otherwise those rows with the tile merged in at
\* the current depth; a second call returns the same rows.
C16_CurrentPure ==
    op = "Current" =>
        /\ fieldState = prev
        /\ retGrid = IF tile = NilTile THEN Visible(grid)
                     ELSE WithTile(grid, tile, tileDepth)
        /\ current = retGrid

\* Current has been called with a tile with a bottom gap inside the board.
C16_Witness ==
    /\ op = "Current"
    /\ tile # NilTile
    /\ GetBottomGap(tile) >= 1
    /\ tileDepth > TileSize
    /\ retGrid # Visible(grid)

\* C17: MoveDown with an active tile and a clear position one row down
\* returns true and leaves the fields as Next would have left them (the
\* depth that fallTick yields, all else unchanged); with a collision one row
\* down it returns false, changes no field and does not freeze the tile.
C17_SoftDropIsFall ==
    [][(MoveDown /\ tile # NilTile) =>
          IF checkCollisions(grid, tile, tileDepth + 1) = "clear"
          THEN /\ ret' = TRUE
               /\ tileDepth' = fallTick.tileDepth
               /\ UNCHANGED <<grid, score, tile, nextTile>>
          ELSE /\ ret' = FALSE
               /\ UNCHANGED board]_vars

\* Both cases of MoveDown have happened: the tile is one row lower, and a
\* further MoveDown would be refused.
C17_Witness ==
    /\ op = "MoveDown"
    /\ ret = TRUE
    /\ tileDepth = prev.tileDepth + 1
    /\ grid # EmptyGrid
    /\ checkCollisions(grid, tile, tileDepth + 1) = "hit"

\* C18: MoveFastDown with an active tile ends, after at most
\* BoardHeight + TileSize soft drops, in a state where the position one row
\* down collides; grid, score and tile are unchanged; the Next that follows
\* freezes the tile, merging it at the depth where it rests.
C18_HardDropRests ==
    (op = "MoveFastDown" /\ prev.tile # NilTile) =>
        /\ ~fault
        /\ checkCollisions(grid, tile, tileDepth + 1) = "hit"
        /\ tileDepth >= prev.tileDepth
        /\ tileDepth - prev.tileDepth <= BoardHeight + TileSize
        /\ grid = prev.grid
        /\ score = prev.score
        /\ tile = prev.tile
        /\ Visible(freezeTick.workingGrid) = WithTile(grid, tile, tileDepth)

\* A tile has been dropped by more than one row onto a board that holds
\* frozen tiles.
C18_Witness ==
    /\ op = "MoveFastDown"
    /\ prev.tile # NilTile
    /\ tileDepth > prev.tileDepth + 1
    /\ grid # EmptyGrid

\* The cells of a shape, as <<row, column>> pairs.
CellsOf(rows, from, to) ==
    {p \in (from .. to) \X (0 .. (BoardWidth - 1)) : CellColor(rows[p[1]], p[2]) # 0}

Canonical == {tiles[i] : i \in 1 .. Len(tiles)}

\* Tile.Rotate called n times in a row; the calls stop at the first panic.
RECURSIVE RotateTimes(_, _)
RotateTimes(t, n) ==
    IF n = 0 THEN [ok |-> TRUE, tile |-> t]
    ELSE LET r == TileRotate(t)
         IN  IF r.ok THEN RotateTimes(r.tile, n - 1) ELSE r

\* A tile that still has its four cells.
Whole(t) == Cardinality(CellsOf(t.shape, 1, TileSize)) = TileSize

\* The filled cells of a shape with their colour codes, moved so that the
\* topmost filled row is row 0 and the leftmost filled column is column 0.
Pattern(shape) ==
    LET cells == CellsOf(shape, 1, TileSize)
    IN  IF cells = {} THEN {}
        ELSE LET minRow == CHOOSE r \in {p[1] : p \in cells} : \A q \in cells : r <= q[1]
                 minCol == CHOOSE c \in {p[2] : p \in cells} : \A q \in cells : c <= q[2]
             IN  {<<p[1] - minRow, p[2] - minCol, CellColor(shape[p[1]], p[2])>> : p \in cells}

QuarterRight(pattern) ==
    LET maxRow == CHOOSE r \in {p[1] : p \in pattern} : \A q \in pattern : r >= q[1]
    IN  {<<p[2], maxRow - p[1], p[3]>> : p \in pattern}

QuarterLeft(pattern) ==
    LET maxCol == CHOOSE c \in {p[2] : p \in pattern} : \A q \in pattern : c >= q[2]
    IN  {<<maxCol - p[2], p[1], p[3]>> : p \in pattern}

\* C22: for every tile as PickTile returns it, the filled cells after
\* Tile.Rotate are the filled cells before it turned by 90 degrees, to the
\* right or to the left, up to a shift inside the block.
C22_QuarterTurn ==
    (op = "Tile.Rotate" /\ ~fault /\ prev.tile \in Canonical) =>
        \/ Pattern(tile.shape) = QuarterRight(Pattern(prev.tile.shape))
        \/ Pattern(tile.shape) = QuarterLeft(Pattern(prev.tile.shape))

(***************************** Collisions *********************************)

\* The greatest depth of a tile on the board: its lowest filled row is row
\* BoardHeight - 1.
FloorDepth(t) == (BoardHeight - 1) + GetBottomGap(t)

\* C23: while the grid is empty but for the row below the board, for the
\* active tile in every orientation and column, checkCollisions reports no
\* collision at any depth from 0 to the one that puts the tile on the floor,
\* and the tile is never deeper than that.
C23_EmptyGridClear ==
    (grid = EmptyGrid /\ tile # NilTile) =>
        /\ tileDepth <= FloorDepth(tile)
        /\ \A depth \in 0 .. FloorDepth(tile) :
               checkCollisions(grid, tile, depth) = "clear"

\* A turned tile that has fallen to the floor of the empty grid.
C23_Witness ==
    /\ grid = EmptyGrid
    /\ op = "fall"
    /\ tile # NilTile
    /\ GetBottomGap(tile) > 0
    /\ tileDepth = FloorDepth(tile)
    /\ checkCollisions(grid, tile, tileDepth) = "clear"
    /\ checkCollisions(grid, tile, tileDepth + 1) = "hit"

C25_RotateInBounds ==
    (op = "Rotate" /\ ret = TRUE) =>
        /\ \A i \in 1 .. TileSize : tile.shape[i] \subseteq FullRow
        /\ Cardinality(CellsOf(tile.shape, 1, TileSize))
               = Cardinality(CellsOf(prev.tile.shape, 1, TileSize))

(***************************** The game loops *****************************)

\* C26: in the text game a method of the board called for a key is never
\* in progress while the loop's call of Next is in progress.
C26_SingleThread == ~(game = "text" /\ loop = "inNext" /\ listener = "inCall")

\* C30: in both games, once Next has returned true the loop is never again
\* at or in a call of Next, and after an exit action the loop has stopped.
C30_LoopStops ==
    /\ gameOver => (loop \notin {"next", "inNext"})
    /\ (op = "ActionExit") => (loop \in {"done", "exited"})

\* The loop of the text game has ended after a Next that returned true.
C30_Witness ==
    /\ game = "text"
    /\ gameOver
    /\ endGame
    /\ loop = "done"

(***************************** Drawing ************************************)

\* C27: RenderBoard calls the callback BoardWidth * BoardHeight times: the
\* first call is for row 0, column 0, each call is followed by the one for
\* the next column of the row or, after the last column, for column 0 of
\* the next row; no call is for the row below the board; isEOL is true
\* exactly in the last column; the colour is that of the cell in the rows
\* Current returns; and the fields of the board are as before the call.
C27_RenderBoard ==
    (op = "RenderBoard") =>
        /\ Len(retGrid) = BoardWidth * BoardHeight
        /\ retGrid[1].row = 0 /\ retGrid[1].col = 0
        /\ \A k \in 1 .. Len(retGrid) :
              LET call == retGrid[k]
              IN  /\ call.row \in 0 .. (BoardHeight - 1)
                  /\ call.col \in 0 .. (BoardWidth - 1)
                  /\ call.isEOL <=> (call.col = BoardWidth - 1)
                  /\ call.color = CellColor(current[call.row], call.col)
                  /\ (k < Len(retGrid)) =>
                         IF call.col < BoardWidth - 1
                         THEN /\ retGrid[k + 1].row = call.row
                              /\ retGrid[k + 1].col = call.col + 1
                         ELSE /\ retGrid[k + 1].row = call.row + 1
                              /\ retGrid[k + 1].col = 0
        /\ fieldState = prev

\* The board is drawn while a tile that has fallen lies over frozen cells:
\* some call carries the colour of the tile, some the colour of a frozen cell.
C27_Witness ==
    /\ op = "RenderBoard"
    /\ tile # NilTile
    /\ tileDepth > 0
    /\ grid # EmptyGrid
    /\ \E k \in 1 .. Len(retGrid) :
          /\ retGrid[k].color = tile.color
          /\ CellColor(grid[retGrid[k].row], retGrid[k].col) = 0
    /\ \E k \in 1 .. Len(retGrid) :
          /\ retGrid[k].color # 0
          /\ CellColor(grid[retGrid[k].row], retGrid[k].col) = retGrid[k].color

(***************************** Frame ***************************************)

\* C28: after every call other than a Next that froze the tile (a move, a
\* rotation or a drop, whatever it returned; Current; RenderBoard; a Next
\* that made a tile active; a Next that let the tile fall) the grid and the
\* score are what they were before the call.
C28_GridScoreFrame ==
    (op \notin {"NewBoard", "freeze"}) => (grid = prev.grid /\ score = prev.score)

\* A Next that let the tile fall returned rows that hold the tile, and the
\* grid does not hold it.
C28_Witness ==
    /\ op = "fall"
    /\ merged # grid
    /\ retGrid # Visible(grid)
    /\ grid = prev.grid
    /\ grid # EmptyGrid

(***************************** Determinism ********************************)

\* The method of the board that a call name or a path of Next stands for.
CallOf(name) == IF name \in Ticks THEN "Next" ELSE name

\* The depth at which MoveFastDown leaves a tile of board b that is at depth.
RECURSIVE DropDepth(_, _)
DropDepth(b, depth) ==
    IF checkCollisions(b.grid, b.tile, (depth + 1) % 256) = "clear"
    THEN DropDepth(b, (depth + 1) % 256)
    ELSE depth

\* The rows drawn for board b: the grid with the active tile, when there is
\* one, merged in.
Snapshot(b) ==
    IF b.tile = NilTile THEN Visible(b.grid)
    ELSE Visible(MergeTile(b.grid, b.tile, b.tileDepth))

\* What a call that does not panic leaves and returns, as a function of the
\* call, the fields of the board before it and the values its random source
\* yields: [fields, ret, retGrid].
Outcome(call, b) ==
    IF call = "Next"
    THEN IF b.tile = NilTile
         THEN LET first == b.nextTile = NilTile
                  rest == IF first THEN Tail(b.random) ELSE b.random
              IN  [fields |-> [b EXCEPT !.tile = IF first THEN tiles[Head(b.random) + 1]
                                                  ELSE b.nextTile,
                                         !.nextTile = tiles[Head(rest) + 1],
                                         !.tileDepth = 0,
                                         !.random = Tail(rest)],
                   ret |-> FALSE,
                   retGrid |-> Visible(b.grid)]
         ELSE LET workingGrid == MergeTile(b.grid, b.tile, b.tileDepth)
                  res == ClearRows(workingGrid)
              IN  IF checkCollisions(b.grid, b.tile, (b.tileDepth + 1) % 256) = "clear"
                  THEN [fields |-> [b EXCEPT !.tileDepth = (@ + 1) % 256],
                        ret |-> FALSE,
                        retGrid |-> Visible(workingGrid)]
                  ELSE [fields |-> [b EXCEPT !.grid = res.grid,
                                             !.score = (@ + res.cleared) % (MaxScore + 1),
                                             !.tile = NilTile],
                        ret |-> b.tileDepth < TileSize,
                        retGrid |-> Visible(res.grid)]
    ELSE IF call \in {"Current", "RenderBoard"}
    THEN [fields |-> b,
          ret |-> FALSE,
          retGrid |-> IF call = "Current" THEN Snapshot(b)
                      ELSE [k \in 1 .. (BoardWidth * BoardHeight) |->
                               [row |-> (k - 1) \div BoardWidth,
                                col |-> (k - 1) % BoardWidth,
                                isEOL |-> k % BoardWidth = 0,
                                color |-> CellColor(Snapshot(b)[(k - 1) \div BoardWidth],
                                                    (k - 1) % BoardWidth)]]]
    ELSE IF b.tile = NilTile THEN [fields |-> b, ret |-> FALSE, retGrid |-> <<>>]
    ELSE IF call \in {"MoveLeft", "MoveRight", "Rotate"}
    THEN LET tempTile == IF call = "MoveLeft" THEN TileMoveX(b.tile, Left)
                         ELSE IF call = "MoveRight" THEN TileMoveX(b.tile, Right)
                         ELSE TileRotate(ShiftFromEdge(b.tile, 0)).tile
             free == checkCollisions(b.grid, tempTile, b.tileDepth) = "clear"
         IN  [fields |-> IF free THEN [b EXCEPT !.tile = tempTile] ELSE b,
              ret |-> free,
              retGrid |-> <<>>]
    ELSE IF call = "MoveDown"
    THEN LET free == checkCollisions(b.grid, b.tile, (b.tileDepth + 1) % 256) = "clear"
         IN  [fields |-> IF free THEN [b EXCEPT !.tileDepth = (@ + 1) % 256] ELSE b,
              ret |-> free,
              retGrid |-> <<>>]
    ELSE [fields |-> [b EXCEPT !.tileDepth = DropDepth(b, b.tileDepth)],
          ret |-> FALSE,
          retGrid |-> <<>>]

BaseRow(t, depth) ==
    LET bottomGap == GetBottomGap(t)
    IN  IF depth > bottomGap THEN depth - bottomGap ELSE depth

\* C31: after every Next that let the tile fall, whatever the gap below the
\* tile and whatever the depth, the grid row on which the lowest filled row
\* of the tile is drawn is one more than before the call.
C31_OneRowPerTick ==
    (op = "fall") => (BaseRow(tile, tileDepth) = BaseRow(prev.tile, prev.tileDepth) + 1)

TicksLeft(depth) == (BoardHeight + TileSize - 1) - depth

\* C33: while a tile is active it has at least one call of Next left; every
\* Next either freezes the tile or leaves it one call less; no move, rotation
\* or drop between the calls of Next adds to the calls left.  So from any
\* state with an active tile the freeze comes after at most
\* BoardHeight + TileSize - 1 calls of Next, fewer than BoardHeight + 4.
C33_EventuallyFreezes ==
    [][(tile # NilTile /\ ~fault) =>
          /\ TicksLeft(tileDepth) >= 1
          /\ TicksLeft(tileDepth) <= BoardHeight + 4
          /\ BoardNext =>
                 \/ op' = "freeze" /\ tile' = NilTile
                 \/ op' = "fall" /\ TicksLeft(tileDepth') = TicksLeft(tileDepth) - 1
          /\ (tile' # NilTile) => (TicksLeft(tileDepth') <= TicksLeft(tileDepth))]_vars

\* A flat pipe that was moved and turned on its way is frozen on the floor
\* by the last call of Next it had left.
C33_Witness ==
    /\ op = "freeze"
    /\ TicksLeft(prev.tileDepth) = 1
    /\ prev.tile # NilTile
    /\ prev.tile \notin Canonical
    /\ tile = NilTile

(***************************** The cells of a tile ************************)

\* C34: after every sequence of Tile.MoveX and Tile.Rotate calls on a tile
\* as PickTile returns it, the tile has four filled cells and every bit of
\* its rows lies in columns 0 .. BoardWidth - 1.
C34_CellCount ==
    /\ Whole(tile)
    /\ \A i \in 1 .. TileSize : tile.shape[i] \subseteq FullRow

C36_InterleavingSafe ==
    (game = "text") =>
        /\ (tile # NilTile /\ ~fault) => (checkCollisions(grid, tile, tileDepth) # "hit")
        /\ ~(op \in {"MoveLeft", "MoveRight", "Rotate"} /\ ret /\ prev.tile = NilTile)

\* The same two properties in the debug game, where the method for a key runs
\* between two calls of Next.
C36_Serial ==
    (game = "debug") =>
        /\ (tile # NilTile /\ ~fault) => (checkCollisions(grid, tile, tileDepth) # "hit")
        /\ ~(op \in {"MoveLeft", "MoveRight", "Rotate"} /\ ret /\ prev.tile = NilTile)

(************************* Moving a tile sideways **************************)

\* The columns of the filled cells of row i of a shape, each moved by d.
MovedCells(shape, i, d) == {col + d : col \in Filled(shape[i])}

\* Tile.MoveX did to the tile before it what a call in a direction must do:
\* edge is the outermost column on that side and d the step of one column.
AllOrNothing(before, after, edge, n, d) ==
    IF \E i \in 1 .. TileSize : edge \in Filled(before.shape[i])
    THEN after = before
    ELSE /\ after.color = before.color
         /\ \A i \in 1 .. TileSize :
               /\ after.shape[i] = {b + n : b \in before.shape[i]}
               /\ after.shape[i] \subseteq FullRow
               /\ Cardinality(after.shape[i]) = Cardinality(before.shape[i])
               /\ Filled(after.shape[i]) = MovedCells(before.shape, i, d)
               /\ \A col \in Filled(after.shape[i]) :
                     CellColor(after.shape[i], col) = CellColor(before.shape[i], col - d)

\* C37: a MoveX of a tile that has a cell in the outermost column on the side
\* asked for changes no row; any other MoveX moves each of the four rows by
\* exactly one column that way, with every set bit kept inside the columns
\* of the row: no call moves some rows and not others.
C37_ShiftAllOrNothing ==
    /\ (op = "Tile.MoveX(Left)") =>
           AllOrNothing(prev.tile, tile, 0, blockBitSize, -1)
    /\ (op = "Tile.MoveX(Right)") =>
           AllOrNothing(prev.tile, tile, BoardWidth - 1, -blockBitSize, 1)

\* A MoveX to the right was stopped by one row of a tile whose other rows
\* were free to move, after a MoveX that moved all the rows.
C37_Witness ==
    /\ op = "Tile.MoveX(Right)"
    /\ tile = prev.tile
    /\ \E i \in 1 .. TileSize : (BoardWidth - 1) \in Filled(tile.shape[i])
    /\ \E i \in 1 .. TileSize :
          /\ tile.shape[i] # {}
          /\ (BoardWidth - 1) \notin Filled(tile.shape[i])
    /\ tile.shape = ShiftedShape(ShiftedShape(tile.shape, Left), Right)

(***************************** The bottom gap ******************************)

\* C39: GetBottomGap returns the number g of empty rows at the end of the
\* four rows of the shape: g is in 0..4, the last g rows are empty and, when
\* g < 4, the row before them is not; g is at most 3 for every shape reached
\* from a tile of PickTile by MoveX and Rotate; and the call leaves the tile
\* as it was.
C39_BottomGap ==
    LET g == GetBottomGap(tile)
    IN  /\ g \in 0 .. TileSize
        /\ \A row \in (TileSize - g + 1) .. TileSize : tile.shape[row] = {}
        /\ (g < TileSize) => (tile.shape[TileSize - g] # {})
        /\ g <= TileSize - 1
        /\ (op = "Tile.GetBottomGap") => (tile = prev.tile)

\* GetBottomGap was called on a tile that was moved or rotated and has an
\* empty row above its cells and empty rows below them.
C39_Witness ==
    /\ op = "Tile.GetBottomGap"
    /\ tile \notin Canonical
    /\ tile.shape[1] = {}
    /\ GetBottomGap(tile) >= 1
    /\ GetBottomGap(tile) < CountEmptyRows(tile)

====
